---- MODULE Spec2Model ----
(***************************************************************************)
(* Cycle lifecycle and record locking of the maintenance application       *)
(* (src/app.py).  The committed contents of the tables ciclos and          *)
(* mantenimiento are the state; every request handler is an action.        *)
(* Spec runs the handlers one request at a time; SpecConc runs the         *)
(* handlers of admin_ciclos and actualizar_registro statement by           *)
(* statement, as PostgreSQL READ COMMITTED transactions of two workers.    *)
(* SpecAdmin runs the admin-only requests (with registro and exportar) for *)
(* every kind of caller; SpecCuentas runs password recovery over the       *)
(* tables tecnicos and password_resets with a clock in hours; SpecPanel     *)
(* runs the statistics of principal over records with any text as fecha.   *)
(***************************************************************************)
EXTENDS Integers, FiniteSets, Sequences, TLC

\* ------------------------------------------------------------- bounds
MaxCiclos == 2
MaxRegistros == 2
MaxTokens == 2
MaxAhora == 2

\* ---------------------------------------------------------- value sets
\* SQL NULL, a missing form field and Python's falsy 0 / None.
NULL == 0
\* Rows of the table empresas (the application never writes that table).
Empresas == {1, 2}
\* Values a form or a session can carry as empresa_id: missing, the two
\* companies, and an id no row of empresas has.
FormEmpresas == {NULL} \cup Empresas \cup {3}
Nombres == {"Q1", "Q2"}
Sedes == {"Soledad", "Monteria"}
\* date.today(): a run of the model takes place within one day.
Hoy == 1
\* The text of a date, as the fields its '-' separate.  date.today().isoformat(),
\* and the values the form field fecha takes: today, a day of another month
\* and a text that is no date.
HoyIso == <<"2025", "01", "15">>
Fechas == {HoyIso, <<"2024", "12", "30">>, <<"ayer">>}
\* The type of the column mantenimiento.fecha: DATE where init_db of app.py
\* created the table, TEXT where the table is older (CREATE TABLE IF NOT
\* EXISTS leaves it as it is).
TiposFecha == {"date", "text"}
Roles == {"anon", "tecnico", "admin"}
\* session: rol and empresa_id as login stores them; "anon" has no session.
\* login stores int(empresa_id), so a posted "0" gives the falsy company 0.
Sesiones ==
    {[rol |-> "anon", empresa_id |-> NULL]}
        \cup [rol : {"tecnico", "admin"}, empresa_id : {NULL} \cup Empresas]
\* session['nombre']: both roles log in as the same technician.
NombreDe(s) == "teo"

\* Accounts.  Form values of registro, recuperar and recuperar_confirm; ""
\* is an empty field and " " a field of blanks.
Usuarios == {"teo", "ana"}
Correos == {"teo@x.co", "ana@x.co"}
Claves == {"c1", "c2"}
\* str.strip() on the form values of the model.
Strip(x) == IF x = " " THEN "" ELSE x
\* re.match(r'^[^@]+@[^@]+\.[^@]+$', correo) on the form values of the model.
CorreoValido(c) == c \in Correos
\* timedelta(hours=1)
UnaHora == 1
TokenIds == 1..MaxTokens

VARIABLES
    ciclos,         \* table ciclos: id -> row
    ciclos_seq,     \* next value of ciclos.id (SERIAL; a failed INSERT leaves
                    \* a gap in the ids, which the model does not keep)
    registros,      \* table mantenimiento: id -> row
    registros_seq,  \* next value of mantenimiento.id (SERIAL)
    tx,             \* per worker: the request in progress (SpecConc)
    last,           \* the last request answered: operation, outcome, arguments
    tecnicos,       \* table tecnicos: usuario -> row
    password_resets,\* table password_resets: token -> row
    tokens_seq,     \* the next token secrets.token_urlsafe gives
    ahora,          \* datetime.utcnow(), in hours
    usos,           \* per token: how often it has changed a contrasena
    fecha_tipo      \* the type of the column mantenimiento.fecha

vars == <<ciclos, ciclos_seq, registros, registros_seq, tx, last,
          tecnicos, password_resets, tokens_seq, ahora, usos, fecha_tipo>>
db == <<ciclos, registros>>
cuentas == <<tecnicos, password_resets, tokens_seq, ahora, usos>>

Workers == {1, 2}
\* A worker's request: the statement it is at, its form, the cycle rows its
\* open transaction has updated (locks) and the rows a waiting UPDATE found
\* (snap).
Idle == [pc |-> "idle", emp |-> NULL, id |-> NULL, nombre |-> "Q1",
         sede |-> "Soledad", locks |-> {}, snap |-> {}]

\* ------------------------------------------------------------- helpers
Max(S) == CHOOSE x \in S : \A y \in S : y <= x

Activos(cic, e) == {i \in DOMAIN cic : cic[i].activo /\ cic[i].empresa_id = e}

\* Variant of get_active_cycle that drops the company filter.
get_active_cycle_global(cic, empresa_id) ==
    LET cand == {i \in DOMAIN cic : cic[i].activo}
    IN IF cand = {} THEN NULL ELSE Max(cand)

\* Variant of get_active_cycle that orders by id ascending.
get_active_cycle_menor(cic, empresa_id) ==
    LET cand == IF empresa_id # NULL
                THEN {i \in DOMAIN cic : cic[i].activo /\ cic[i].empresa_id = empresa_id}
                ELSE {i \in DOMAIN cic : cic[i].activo}
    IN IF cand = {} THEN NULL ELSE CHOOSE x \in cand : \A y \in cand : x <= y

\* Variant of get_active_cycle that drops the test of activo.
get_active_cycle_cualquiera(cic, empresa_id) ==
    LET cand == {i \in DOMAIN cic : empresa_id = NULL \/ cic[i].empresa_id = empresa_id}
    IN IF cand = {} THEN NULL ELSE Max(cand)

\* get_active_cycle: ... WHERE activo=TRUE [AND empresa_id=%s] ORDER BY id DESC LIMIT 1
get_active_cycle(cic, empresa_id) ==
    LET cand == IF empresa_id # NULL
                THEN Activos(cic, empresa_id)
                ELSE {i \in DOMAIN cic : cic[i].activo}
    IN IF cand = {} THEN NULL ELSE Max(cand)

\* Variant of the UPDATE of nuevo that drops the company filter.
CerrarActivosTodos(cic, e, d) ==
    [i \in DOMAIN cic |->
        IF cic[i].activo
        THEN [cic[i] EXCEPT !.activo = FALSE, !.fecha_cierre = d]
        ELSE cic[i]]

\* UPDATE ciclos SET activo=FALSE, fecha_cierre=today WHERE activo=TRUE AND empresa_id=e
CerrarActivosDeEmpresa(cic, e, d) ==
    [i \in DOMAIN cic |->
        IF cic[i].activo /\ cic[i].empresa_id = e
        THEN [cic[i] EXCEPT !.activo = FALSE, !.fecha_cierre = d]
        ELSE cic[i]]

\* UPDATE ciclos SET activo=FALSE, fecha_cierre=today WHERE id=cid
CerrarCicloPorId(cic, cid, d) ==
    [i \in DOMAIN cic |->
        IF i = cid
        THEN [cic[i] EXCEPT !.activo = FALSE, !.fecha_cierre = d]
        ELSE cic[i]]

\* Variant of the UPDATE of cerrar that drops its WHERE.
CerrarRegistrosTodos(reg, cid) ==
    [r \in DOMAIN reg |-> [reg[r] EXCEPT !.cerrado = TRUE]]

\* UPDATE mantenimiento SET cerrado=TRUE WHERE ciclo_id=cid
CerrarRegistrosDeCiclo(reg, cid) ==
    [r \in DOMAIN reg |->
        IF reg[r].ciclo_id = cid THEN [reg[r] EXCEPT !.cerrado = TRUE] ELSE reg[r]]

\* INSERT INTO ciclos (..., activo, empresa_id) VALUES (..., TRUE, e)
InsertarCiclo(cic, id, nombre, e) ==
    [i \in DOMAIN cic \cup {id} |->
        IF i = id
        THEN [nombre |-> nombre, fecha_cierre |-> NULL, activo |-> TRUE, empresa_id |-> e]
        ELSE cic[i]]

\* CONSTRAINT unique_nombre_empresa UNIQUE (nombre, empresa_id); NULLs never collide.
ViolaUnique(cic, nombre, e, propio) ==
    /\ e # NULL
    /\ \E i \in DOMAIN cic : i # propio /\ cic[i].nombre = nombre /\ cic[i].empresa_id = e

\* empresa_id INT REFERENCES empresas(id)
ViolaFK(e) == e # NULL /\ e \notin Empresas

\* Variant of the lock test that reads the record's flag only.
is_editable_sin_ciclo(reg, cic, rid) == ~reg[rid].cerrado

\* Variant of the lock test that takes a record without cycle as locked.
is_editable_exige_ciclo(reg, cic, rid) ==
    /\ ~reg[rid].cerrado
    /\ reg[rid].ciclo_id \in DOMAIN cic
    /\ cic[reg[rid].ciclo_id].activo

\* The lock test of actualizar_registro and eliminar on the row read.
is_editable(reg, cic, rid) ==
    /\ ~reg[rid].cerrado
    /\ \/ reg[rid].ciclo_id = NULL
       \/ /\ reg[rid].ciclo_id \in DOMAIN cic
          /\ cic[reg[rid].ciclo_id].activo

\* n: the number of records asociar reports.
Resp(op, res, e, id) == [op |-> op, res |-> res, emp |-> e, id |-> id, n |-> 0]
\* login_required / admin_required answer before the handler runs.
Denegado == Resp("decorador", "denied", NULL, NULL)

\* Variant of Revertir that keeps what the request wrote before it failed.
RevertirNo(antes, durante) == durante

\* A request that raises before conn.commit(): its connection is dropped and
\* the table keeps the rows committed before the request (antes), not the
\* rows as the request's statements left them (durante).
Revertir(antes, durante) == antes

\* The text is a date written YYYY-MM-DD: what the input of a DATE column
\* and TO_DATE(fecha, 'YYYY-MM-DD') accept; any other text makes them raise.
EsFecha(f) ==
    /\ Len(f) = 3
    /\ f[1] \in {"2024", "2025"}
    /\ f[2] \in {"01", "12"}
    /\ f[3] \in {"15", "30"}

\* A column of type DATE stores a text that is a date, a TEXT column any text.
Almacenable(tipo, f) == tipo = "text" \/ EsFecha(f)

\* date.today().strftime("%Y-%m")
mes_actual == <<HoyIso[1], HoyIso[2]>>

\* fecha LIKE 'YYYY-MM%' on a text
Like(f, mes) == Len(f) >= 2 /\ <<f[1], f[2]>> = mes

\* TO_CHAR(TO_DATE(fecha, 'YYYY-MM-DD'), 'Mon') on a text that is a date
Mon(f) == CASE f[2] = "01" -> "Jan" [] f[2] = "12" -> "Dec"

\* --------------------------------------------------------------- Init
\* An empty cycle table, and one record of an earlier schema revision in
\* the record table (no cycle; company unset or set).
RegistroLegado(e) ==
    [sede |-> "Soledad", fecha |-> HoyIso, tecnico |-> "teo", cerrado |-> FALSE,
     ciclo_id |-> NULL, empresa_id |-> e]

\* The administrator account the deployment is seeded with (init_db creates
\* the table tecnicos and no row; registro needs an admin to be logged in).
TecnicoInicial ==
    [nombre |-> "teo", correo |-> "teo@x.co", contrasena |-> "c1", rol |-> "admin"]

InitTablas ==
    /\ ciclos = <<>>
    /\ ciclos_seq = 1
    /\ \E e \in {NULL, 1} : registros = [r \in {1} |-> RegistroLegado(e)]
    /\ registros_seq = 2
    /\ tx = [w \in Workers |-> Idle]
    /\ last = Resp("init", "ok", NULL, NULL)
    /\ tecnicos = [u \in {"teo"} |-> TecnicoInicial]
    /\ password_resets = <<>>
    /\ tokens_seq = 1
    /\ ahora = 0
    /\ usos = [t \in TokenIds |-> 0]

\* The requests of Spec, SpecConc, SpecAdmin and SpecCuentas send today's
\* date, which both column types store alike: they start from the type of
\* app.py's own CREATE TABLE.  InitPanel starts from either type.
Init == InitTablas /\ fecha_tipo = "date"

InitPanel == InitTablas /\ fecha_tipo \in TiposFecha

\* ------------------------------------------------------------ actions
\* admin_ciclos, action=nuevo
NuevoCiclo(rol, e, nombre) ==
    /\ UNCHANGED <<cuentas, fecha_tipo>>
    /\ UNCHANGED <<registros, registros_seq, tx>>
    /\ IF rol # "admin"
       THEN /\ last' = Denegado
            /\ UNCHANGED <<ciclos, ciclos_seq>>
       ELSE IF e = NULL
       THEN /\ last' = Resp("nuevo", "invalid", NULL, NULL)
            /\ UNCHANGED <<ciclos, ciclos_seq>>
       ELSE /\ ciclos_seq <= MaxCiclos
            /\ LET prev == CerrarActivosDeEmpresa(ciclos, e, Hoy)
               IN IF ViolaFK(e) \/ ViolaUnique(prev, nombre, e, NULL)
                  THEN \* the INSERT raises; the request ends without commit
                       /\ ciclos' = Revertir(ciclos, prev)
                       /\ UNCHANGED ciclos_seq
                       /\ last' = Resp("nuevo", "fault", e, NULL)
                  ELSE /\ ciclos_seq' = ciclos_seq + 1
                       /\ ciclos' = InsertarCiclo(prev, ciclos_seq, nombre, e)
                       /\ last' = Resp("nuevo", "ok", e, ciclos_seq)

\* admin_ciclos, action=cerrar
CerrarCiclo(rol, e) ==
    /\ UNCHANGED <<cuentas, fecha_tipo>>
    /\ UNCHANGED <<ciclos_seq, registros_seq, tx>>
    /\ IF rol # "admin"
       THEN /\ last' = Denegado
            /\ UNCHANGED db
       ELSE IF e = NULL
       THEN /\ last' = Resp("cerrar", "invalid", NULL, NULL)
            /\ UNCHANGED db
       ELSE LET ciclo_activo == get_active_cycle(ciclos, e)
            IN IF ciclo_activo # NULL
               THEN /\ ciclos' = CerrarCicloPorId(ciclos, ciclo_activo, Hoy)
                    /\ registros' = CerrarRegistrosDeCiclo(registros, ciclo_activo)
                    /\ last' = Resp("cerrar", "ok", NULL, ciclo_activo)
               ELSE /\ last' = Resp("cerrar", "notice", e, NULL)
                    /\ UNCHANGED db

\* Variant of SinCiclo that drops the test of the company.
SinCicloTodaEmpresa(reg, e) == {r \in DOMAIN reg : reg[r].ciclo_id = NULL}

\* Variant of SinCiclo that drops the test of ciclo_id.
SinCicloCualquiera(reg, e) ==
    {r \in DOMAIN reg : reg[r].empresa_id = NULL \/ reg[r].empresa_id = e}

\* UPDATE mantenimiento SET ciclo_id=cid, empresa_id=e
\*   WHERE ciclo_id IS NULL AND (empresa_id IS NULL OR empresa_id=e)
SinCiclo(reg, e) ==
    {r \in DOMAIN reg :
        reg[r].ciclo_id = NULL /\ (reg[r].empresa_id = NULL \/ reg[r].empresa_id = e)}

AsociarRegistros(reg, cid, e) ==
    [r \in DOMAIN reg |->
        IF r \in SinCiclo(reg, e)
        THEN [reg[r] EXCEPT !.ciclo_id = cid, !.empresa_id = e]
        ELSE reg[r]]

\* asociar_mantenimientos_a_ciclo
AsociarMantenimientos(rol, cid) ==
    /\ UNCHANGED <<cuentas, fecha_tipo>>
    /\ UNCHANGED <<ciclos, ciclos_seq, registros_seq, tx>>
    /\ IF rol # "admin"
       THEN /\ last' = Denegado
            /\ UNCHANGED registros
       ELSE IF cid \notin DOMAIN ciclos
       THEN /\ last' = Resp("asociar", "notfound", NULL, NULL)
            /\ UNCHANGED registros
       ELSE LET e == ciclos[cid].empresa_id
                total_sin_ciclo == Cardinality(SinCiclo(registros, e))
            IN IF total_sin_ciclo = 0
               THEN /\ last' = Resp("asociar", "notice", NULL, cid)
                    /\ UNCHANGED registros
               ELSE /\ registros' = AsociarRegistros(registros, cid, e)
                    /\ last' = [Resp("asociar", "ok", NULL, cid) EXCEPT !.n = total_sin_ciclo]

\* INSERT INTO mantenimiento (..., ciclo_id, empresa_id); cerrado takes its default
InsertarRegistro(reg, id, sede, fecha, tecnico, cid, e) ==
    [r \in DOMAIN reg \cup {id} |->
        IF r = id
        THEN [sede |-> sede, fecha |-> fecha, tecnico |-> tecnico, cerrado |-> FALSE,
              ciclo_id |-> cid, empresa_id |-> e]
        ELSE reg[r]]

\* principal, action=guardar: the INSERT, its commit and its notice (the page
\* the same request renders afterwards is Principal).
GuardarMantenimiento(s, sede, fecha) ==
    /\ UNCHANGED <<cuentas, fecha_tipo>>
    /\ UNCHANGED <<ciclos, ciclos_seq, tx>>
    /\ IF s.rol = "anon"
       THEN /\ last' = Denegado
            /\ UNCHANGED <<registros, registros_seq>>
       ELSE LET ciclo_activo == get_active_cycle(ciclos, s.empresa_id)
            IN IF ciclo_activo = NULL
               THEN /\ last' = Resp("guardar", "invalid", NULL, NULL)
                    /\ UNCHANGED <<registros, registros_seq>>
               ELSE /\ registros_seq <= MaxRegistros
                    /\ IF s.empresa_id \notin Empresas \/ ~Almacenable(fecha_tipo, fecha)
                       THEN \* empresa_id violates its foreign key, or the column
                            \* refuses the text of fecha: the INSERT raises
                            /\ UNCHANGED <<registros, registros_seq>>
                            /\ last' = Resp("guardar", "fault", NULL, NULL)
                       ELSE /\ registros_seq' = registros_seq + 1
                            /\ registros' = InsertarRegistro(registros, registros_seq, sede,
                                                fecha, NombreDe(s), ciclo_activo,
                                                s.empresa_id)
                            /\ last' = Resp("guardar", "ok", s.empresa_id, registros_seq)

\* Variant of the UPDATE of actualizar_registro that drops its WHERE.
ActualizarCamposSinWhere(reg, rid, sede, fecha) ==
    [r \in DOMAIN reg |-> [reg[r] EXCEPT !.sede = sede, !.fecha = fecha]]

\* UPDATE mantenimiento SET sede=..., fecha=..., ..., observaciones=... WHERE id=rid
ActualizarCampos(reg, rid, sede, fecha) ==
    [r \in DOMAIN reg |->
        IF r = rid THEN [reg[r] EXCEPT !.sede = sede, !.fecha = fecha] ELSE reg[r]]

\* actualizar_registro
ActualizarRegistro(rol, rid, sede, fecha) ==
    /\ UNCHANGED <<cuentas, fecha_tipo>>
    /\ UNCHANGED <<ciclos, ciclos_seq, registros_seq, tx>>
    /\ IF rol = "anon"
       THEN /\ last' = Denegado
            /\ UNCHANGED registros
       ELSE IF rid \notin DOMAIN registros
       THEN /\ last' = Resp("actualizar", "notfound", NULL, NULL)
            /\ UNCHANGED registros
       ELSE IF ~is_editable(registros, ciclos, rid)
       THEN /\ last' = Resp("actualizar", "locked", NULL, rid)
            /\ UNCHANGED registros
       ELSE IF ~Almacenable(fecha_tipo, fecha)
       THEN \* the column refuses the text of fecha: the UPDATE raises
            /\ last' = Resp("actualizar", "fault", NULL, rid)
            /\ UNCHANGED registros
       ELSE /\ registros' = ActualizarCampos(registros, rid, sede, fecha)
            /\ last' = Resp("actualizar", "ok", NULL, rid)

\* DELETE FROM mantenimiento WHERE id=rid
BorrarRegistro(reg, rid) == [r \in DOMAIN reg \ {rid} |-> reg[r]]

\* eliminar
Eliminar(rol, rid) ==
    /\ UNCHANGED <<cuentas, fecha_tipo>>
    /\ UNCHANGED <<ciclos, ciclos_seq, registros_seq, tx>>
    /\ IF rol # "admin"
       THEN /\ last' = Denegado
            /\ UNCHANGED registros
       ELSE IF rid \notin DOMAIN registros
       THEN /\ last' = Resp("eliminar", "notfound", NULL, NULL)
            /\ UNCHANGED registros
       ELSE IF ~is_editable(registros, ciclos, rid)
       THEN /\ last' = Resp("eliminar", "locked", NULL, rid)
            /\ UNCHANGED registros
       ELSE /\ registros' = BorrarRegistro(registros, rid)
            /\ last' = Resp("eliminar", "ok", NULL, rid)

\* UPDATE ciclos SET nombre=..., fecha_cierre=..., empresa_id=... WHERE id=cid
EditarCampos(cic, cid, nombre, fecha_cierre, e) ==
    [i \in DOMAIN cic |->
        IF i = cid
        THEN [cic[i] EXCEPT !.nombre = nombre, !.fecha_cierre = fecha_cierre,
                            !.empresa_id = e]
        ELSE cic[i]]

\* Variant of the closed test that lets every cycle through.
ciclo_cerrado_nunca(cic, cid) == FALSE

\* The closed test of editar_ciclo on the row read.
ciclo_cerrado(cic, cid) == ~cic[cid].activo

\* editar_ciclo (POST).  completo: trimestre, anio and fecha_inicio are all
\* given.  The form posts a company (its select has no empty option) and no
\* fecha_cierre.
EditarCiclo(rol, cid) ==
    /\ UNCHANGED <<cuentas, fecha_tipo>>
    /\ UNCHANGED <<ciclos_seq, registros, registros_seq, tx>>
    /\ IF rol = "anon"
       THEN /\ last' = Denegado
            /\ UNCHANGED ciclos
       ELSE IF cid \notin DOMAIN ciclos
       THEN /\ last' = Resp("editar", "notfound", NULL, NULL)
            /\ UNCHANGED ciclos
       ELSE IF ciclo_cerrado(ciclos, cid)
       THEN /\ last' = Resp("editar", "locked", NULL, cid)
            /\ UNCHANGED ciclos
       ELSE \E completo \in BOOLEAN :
            IF ~completo
            THEN /\ last' = Resp("editar", "invalid", NULL, cid)
                 /\ UNCHANGED ciclos
            ELSE \E nombre \in Nombres, e \in FormEmpresas \ {NULL} :
                 IF ViolaFK(e) \/ ViolaUnique(ciclos, nombre, e, cid)
                 THEN \* the UPDATE raises; the request ends without commit
                      /\ last' = Resp("editar", "fault", NULL, cid)
                      /\ UNCHANGED ciclos
                 ELSE /\ ciclos' = EditarCampos(ciclos, cid, nombre, NULL, e)
                      /\ last' = Resp("editar", "ok", e, cid)

\* principal: the cycle the dashboard reads.  The cycle of the GET parameter
\* ciclo_id when it exists and, for a session with a company, belongs to that
\* company; otherwise the active cycle get_active_cycle gives the session.
ParamValido(cic, s, ciclo_id_param) ==
    /\ ciclo_id_param # NULL
    /\ ciclo_id_param \in DOMAIN cic
    /\ ~(s.empresa_id # NULL /\ cic[ciclo_id_param].empresa_id # s.empresa_id)

ciclo_seleccionado(cic, s, ciclo_id_param) ==
    IF ParamValido(cic, s, ciclo_id_param)
    THEN ciclo_id_param
    ELSE get_active_cycle(cic, s.empresa_id)

\* principal: which of its three queries the dashboard runs.
Alcance(cic, s, ciclo_id_param) ==
    IF ciclo_seleccionado(cic, s, ciclo_id_param) # NULL THEN "ciclo"
    ELSE IF s.empresa_id # NULL THEN "empresa"
    ELSE "todas"

\* principal: the records of "SELECT * FROM mantenimiento [WHERE ...]"
\* (its LIMIT 10 is above the number of records of the model).
RegistrosPrincipal(reg, cic, s, ciclo_id_param) ==
    LET ciclo_para_consultar == ciclo_seleccionado(cic, s, ciclo_id_param)
    IN IF ciclo_para_consultar # NULL
       THEN {r \in DOMAIN reg : reg[r].ciclo_id = ciclo_para_consultar}
       ELSE IF s.empresa_id # NULL
       THEN {r \in DOMAIN reg : reg[r].empresa_id = s.empresa_id}
       ELSE DOMAIN reg

\* principal: total_mantenimientos, the COUNT(*) of the branch the dashboard takes.
total_mantenimientos(reg, cic, s, ciclo_id_param) ==
    LET cid == ciclo_seleccionado(cic, s, ciclo_id_param)
    IN IF cid # NULL
       THEN Cardinality({r \in DOMAIN reg : reg[r].ciclo_id = cid})
       ELSE IF s.empresa_id # NULL
       THEN Cardinality({r \in DOMAIN reg : reg[r].empresa_id = s.empresa_id})
       ELSE Cardinality(DOMAIN reg)

\* consultar without search text and with sede "Todas": total, the COUNT(*)
\* of "SELECT * FROM mantenimiento WHERE 1=1 [AND empresa_id=%s]".
total_consultar(reg, s) ==
    Cardinality({r \in DOMAIN reg :
                    s.empresa_id = NULL \/ reg[r].empresa_id = s.empresa_id})

CicloIds == 1..MaxCiclos
RegistroIds == 1..MaxRegistros

\* The inputs of a request.  A caller the decorator turns away sends one
\* form only: the handler never reads it.
FormDe(rol, S, vacio) == IF rol = "admin" THEN S ELSE {vacio}
FormDeSesion(rol, S, vacio) == IF rol # "anon" THEN S ELSE {vacio}

Next ==
    \/ \E rol \in Roles :
          \E e \in FormDe(rol, FormEmpresas, NULL), n \in FormDe(rol, Nombres, "Q1") :
             NuevoCiclo(rol, e, n)
    \/ \E rol \in Roles : \E e \in FormDe(rol, FormEmpresas, NULL) : CerrarCiclo(rol, e)
    \/ \E rol \in Roles : \E cid \in FormDe(rol, CicloIds, 1) : AsociarMantenimientos(rol, cid)
    \/ \E s \in Sesiones : \E sede \in FormDeSesion(s.rol, Sedes, "Soledad") :
          GuardarMantenimiento(s, sede, HoyIso)
    \/ \E rol \in Roles :
          \E rid \in FormDeSesion(rol, RegistroIds, 1), sede \in FormDeSesion(rol, Sedes, "Soledad") :
             ActualizarRegistro(rol, rid, sede, HoyIso)
    \/ \E rol \in Roles : \E rid \in FormDe(rol, RegistroIds, 1) : Eliminar(rol, rid)
    \/ \E rol \in Roles : \E cid \in FormDeSesion(rol, CicloIds, 1) : EditarCiclo(rol, cid)

Spec == Init /\ [][Next]_vars

\* ------------------------------------------------------------------
\* Accounts and export.
\* ------------------------------------------------------------------
otras == <<ciclos, ciclos_seq, registros, registros_seq, tx, fecha_tipo>>

\* Variant of admin_required that lets every caller through.
admin_required_todos(rol) == TRUE

\* admin_required: 'usuario' in session and session['rol'] == 'admin'
admin_required(rol) == rol = "admin"

\* tecnicos.usuario and tecnicos.correo are UNIQUE
ViolaUniqueTecnico(tec, usuario, correo) ==
    \/ usuario \in DOMAIN tec
    \/ \E u \in DOMAIN tec : tec[u].correo = correo

\* INSERT INTO tecnicos (usuario, nombre, correo, contrasena, rol)
InsertarTecnico(tec, usuario, nombre, correo, contrasena, rol) ==
    [u \in DOMAIN tec \cup {usuario} |->
        IF u = usuario
        THEN [nombre |-> nombre, correo |-> correo, contrasena |-> contrasena, rol |-> rol]
        ELSE tec[u]]

\* registro (POST)
Registro(rol, usuario_, nombre_, correo_, contrasena_, rolNuevo) ==
    /\ UNCHANGED otras
    /\ UNCHANGED <<password_resets, tokens_seq, ahora, usos>>
    /\ IF ~admin_required(rol)
       THEN /\ last' = Denegado
            /\ UNCHANGED tecnicos
       ELSE LET usuario == Strip(usuario_)
                nombre == Strip(nombre_)
                correo == Strip(correo_)
                contrasena == Strip(contrasena_)
            IN IF usuario = "" \/ nombre = "" \/ correo = "" \/ contrasena = ""
               THEN /\ last' = Resp("registro", "invalid", NULL, NULL)
                    /\ UNCHANGED tecnicos
               ELSE IF ~CorreoValido(correo)
               THEN /\ last' = Resp("registro", "invalid", NULL, NULL)
                    /\ UNCHANGED tecnicos
               ELSE IF ViolaUniqueTecnico(tecnicos, usuario, correo)
               THEN \* UniqueViolation: conn.rollback()
                    /\ last' = Resp("registro", "exists", NULL, NULL)
                    /\ UNCHANGED tecnicos
               ELSE /\ tecnicos' = InsertarTecnico(tecnicos, usuario, nombre, correo,
                                                   contrasena, rolNuevo)
                    /\ last' = Resp("registro", "ok", NULL, NULL)

\* exportar: SELECT * FROM mantenimiento [WHERE empresa_id=%s]
RegistrosExportar(reg, s) ==
    {r \in DOMAIN reg : s.empresa_id = NULL \/ reg[r].empresa_id = s.empresa_id}

\* exportar
Exportar(s) ==
    /\ UNCHANGED otras
    /\ UNCHANGED cuentas
    /\ IF ~admin_required(s.rol)
       THEN last' = Denegado
       ELSE LET filas == RegistrosExportar(registros, s)
            IN IF filas = {}
               THEN last' = Resp("exportar", "notice", s.empresa_id, NULL)
               ELSE last' = [Resp("exportar", "ok", s.empresa_id, NULL)
                                EXCEPT !.n = Cardinality(filas)]

\* The form of registro.
FormUsuarios == Usuarios \cup {"", " "}
FormCorreos == Correos \cup {"", "malo"}
FormClaves == Claves \cup {"", " "}
FormRoles == {"tecnico", "admin"}

\* The admin-only requests, made by every kind of caller.
NextAdmin ==
    \/ \E rol \in Roles :
          \E e \in FormDe(rol, FormEmpresas, NULL), n \in FormDe(rol, Nombres, "Q1") :
             NuevoCiclo(rol, e, n)
    \/ \E rol \in Roles : \E e \in FormDe(rol, FormEmpresas, NULL) : CerrarCiclo(rol, e)
    \/ \E rol \in Roles : \E rid \in FormDe(rol, RegistroIds, 1) : Eliminar(rol, rid)
    \/ \E rol \in Roles :
          \E u \in FormDe(rol, FormUsuarios, ""), nom \in FormDe(rol, {"Ana", ""}, ""),
             c \in FormDe(rol, FormCorreos, ""), k \in FormDe(rol, {"c1", ""}, ""),
             rn \in FormDe(rol, FormRoles, "tecnico") :
             Registro(rol, u, nom, c, k, rn)
    \/ \E s \in Sesiones : Exportar(s)

SpecAdmin == Init /\ [][NextAdmin]_vars

\* INSERT INTO password_resets (usuario, token, expires_at)
InsertarToken(pr, token, usuario, expires_at) ==
    [t \in DOMAIN pr \cup {token} |->
        IF t = token THEN [usuario |-> usuario, expires_at |-> expires_at] ELSE pr[t]]

\* Variant of BorrarToken that deletes nothing.
BorrarTokenNo(pr, token) == pr

\* DELETE FROM password_resets WHERE token=%s
BorrarToken(pr, token) == [t \in DOMAIN pr \ {token} |-> pr[t]]

\* UPDATE tecnicos SET contrasena=%s WHERE usuario=%s
CambiarContrasena(tec, usuario, nueva) ==
    [u \in DOMAIN tec |-> IF u = usuario THEN [tec[u] EXCEPT !.contrasena = nueva] ELSE tec[u]]

\* login: row and row['contrasena'] == contrasena
login(tec, usuario, contrasena) ==
    usuario \in DOMAIN tec /\ tec[usuario].contrasena = contrasena

\* recuperar (POST).  The token is new: secrets.token_urlsafe(32) repeats no
\* token given before.  enviado: send_email did not raise.
Recuperar(usuario_, enviado) ==
    /\ UNCHANGED otras
    /\ UNCHANGED <<tecnicos, ahora, usos>>
    /\ LET usuario == Strip(usuario_)
       IN IF usuario = ""
          THEN /\ last' = Resp("recuperar", "invalid", NULL, NULL)
               /\ UNCHANGED <<password_resets, tokens_seq>>
          ELSE IF usuario \notin DOMAIN tecnicos
          THEN /\ last' = Resp("recuperar", "notfound", NULL, NULL)
               /\ UNCHANGED <<password_resets, tokens_seq>>
          ELSE /\ tokens_seq <= MaxTokens
               /\ password_resets' = InsertarToken(password_resets, tokens_seq, usuario,
                                                   ahora + UnaHora)
               /\ tokens_seq' = tokens_seq + 1
               /\ last' = Resp("recuperar", IF enviado THEN "ok" ELSE "mailfail",
                               NULL, tokens_seq)

\* recuperar_confirm.  post: the request is a POST (otherwise a GET).
RecuperarConfirm(token, post, nueva_, confirmar_) ==
    /\ UNCHANGED otras
    /\ UNCHANGED <<tokens_seq, ahora>>
    /\ IF token = NULL
       THEN /\ last' = Resp("confirm", "invalid", NULL, NULL)
            /\ UNCHANGED <<tecnicos, password_resets, usos>>
       ELSE IF token \notin DOMAIN password_resets
       THEN /\ last' = Resp("confirm", "notfound", NULL, token)
            /\ UNCHANGED <<tecnicos, password_resets, usos>>
       ELSE IF ahora > password_resets[token].expires_at
       THEN /\ password_resets' = BorrarToken(password_resets, token)
            /\ last' = Resp("confirm", "expired", NULL, token)
            /\ UNCHANGED <<tecnicos, usos>>
       ELSE IF ~post
       THEN /\ last' = Resp("confirm", "form", NULL, token)
            /\ UNCHANGED <<tecnicos, password_resets, usos>>
       ELSE LET nueva == Strip(nueva_)
                confirmar == Strip(confirmar_)
                usuario == password_resets[token].usuario
            IN IF nueva = "" \/ confirmar = ""
               THEN /\ last' = Resp("confirm", "invalid", NULL, token)
                    /\ UNCHANGED <<tecnicos, password_resets, usos>>
               ELSE IF nueva # confirmar
               THEN /\ last' = Resp("confirm", "mismatch", NULL, token)
                    /\ UNCHANGED <<tecnicos, password_resets, usos>>
               ELSE /\ tecnicos' = CambiarContrasena(tecnicos, usuario, nueva)
                    /\ password_resets' = BorrarToken(password_resets, token)
                    /\ usos' = [usos EXCEPT ![token] = @ + 1]
                    /\ last' = Resp("confirm", "ok", NULL, token)

\* An hour passes.
PasaHora ==
    /\ ahora < MaxAhora
    /\ ahora' = ahora + 1
    /\ UNCHANGED otras
    /\ UNCHANGED <<last, tecnicos, password_resets, tokens_seq, usos>>

\* Password recovery, with an administrator who registers technicians.
NextCuentas ==
    \/ \E u \in Usuarios, c \in Correos : Registro("admin", u, "Ana", c, "c1", "tecnico")
    \/ \E u \in FormUsuarios, enviado \in BOOLEAN : Recuperar(u, enviado)
    \/ \E t \in {NULL} \cup TokenIds, post \in BOOLEAN, k1 \in FormClaves, k2 \in {"c2", " "} :
          RecuperarConfirm(t, post, k1, k2)
    \/ PasaHora

SpecCuentas == Init /\ [][NextCuentas]_vars

\* ------------------------------------------------------------------
\* The dashboard.
\* ------------------------------------------------------------------
\* principal: COUNT(DISTINCT tecnico) over the rows of the branch it takes
total_tecnicos(reg, filas) == Cardinality({reg[r].tecnico : r \in filas})

\* principal: COUNT(*) ... AND fecha LIKE 'mes_actual%'
mantenimientos_mes(reg, filas) ==
    Cardinality({r \in filas : Like(reg[r].fecha, mes_actual)})

\* principal: SELECT TO_CHAR(TO_DATE(fecha, 'YYYY-MM-DD'), 'Mon') AS mes, COUNT(*)
\* ... GROUP BY mes, as meses_labels -> meses_counts (no row of the model has
\* a NULL fecha).
meses_data(reg, filas) ==
    LET meses_labels == {Mon(reg[r].fecha) : r \in filas}
    IN [m \in meses_labels |-> Cardinality({r \in filas : Mon(reg[r].fecha) = m})]

\* principal (GET): the statistics of the page.  The statements run one after
\* the other on the rows of the branch the dashboard takes; a statement that
\* raises ends the request without a page, since nothing catches it.
Principal(s, ciclo_id_param) ==
    /\ UNCHANGED otras
    /\ UNCHANGED cuentas
    /\ IF s.rol = "anon"
       THEN last' = Denegado
       ELSE LET filas == RegistrosPrincipal(registros, ciclos, s, ciclo_id_param)
            IN IF fecha_tipo = "date"
               THEN \* fecha LIKE %s: no operator LIKE takes a date; the statement raises
                    last' = Resp("principal", "fault", s.empresa_id, ciclo_id_param)
               ELSE IF \E r \in filas : ~EsFecha(registros[r].fecha)
               THEN \* TO_DATE raises on the row
                    last' = Resp("principal", "fault", s.empresa_id, ciclo_id_param)
               ELSE last' = [op |-> "principal", res |-> "ok", emp |-> s.empresa_id,
                             id |-> ciclo_id_param,
                             n |-> total_mantenimientos(registros, ciclos, s, ciclo_id_param),
                             total_tecnicos |-> total_tecnicos(registros, filas),
                             mantenimientos_mes |-> mantenimientos_mes(registros, filas),
                             meses |-> meses_data(registros, filas)]

\* The dashboard over records saved and updated with any text as fecha, on a
\* column of either type.
NextPanel ==
    \/ \E e \in Empresas : NuevoCiclo("admin", e, "Q1")
    \/ \E e \in Empresas, f \in Fechas :
          GuardarMantenimiento([rol |-> "tecnico", empresa_id |-> e], "Soledad", f)
    \/ \E rid \in RegistroIds, f \in Fechas : ActualizarRegistro("tecnico", rid, "Soledad", f)
    \/ \E s \in Sesiones, p \in {NULL} \cup CicloIds : Principal(s, p)

SpecPanel == InitPanel /\ [][NextPanel]_vars

\* ------------------------------------------------------------------
\* Two workers, one request each at a time, every request one READ
\* COMMITTED transaction: a statement sees what is committed when it starts;
\* an UPDATE waits for the rows another open transaction has updated and then
\* tests its WHERE again on those rows only.
\* ------------------------------------------------------------------
Bloqueadas(w) == UNION {tx[v].locks : v \in Workers \ {w}}
EnNuevo == {v \in Workers : tx[v].pc \in {"nuevo_espera", "nuevo_insert"}}

\* The rows of S as the UPDATE of nuevo leaves them.
CerrarFilas(cic, S, d) ==
    [i \in DOMAIN cic |->
        IF i \in S THEN [cic[i] EXCEPT !.activo = FALSE, !.fecha_cierre = d] ELSE cic[i]]

\* admin_ciclos, action=nuevo: UPDATE ciclos ... WHERE activo AND empresa_id=e
NuevoUpdate(w, e, nombre) ==
    /\ UNCHANGED <<cuentas, fecha_tipo>>
    /\ tx[w].pc = "idle"
    /\ ciclos_seq + Cardinality(EnNuevo) <= MaxCiclos + 1
    /\ LET filas == Activos(ciclos, e)
       IN tx' = [tx EXCEPT ![w] =
                   IF filas \cap Bloqueadas(w) = {}
                   THEN [Idle EXCEPT !.pc = "nuevo_insert", !.emp = e,
                                     !.nombre = nombre, !.locks = filas]
                   ELSE [Idle EXCEPT !.pc = "nuevo_espera", !.emp = e,
                                     !.nombre = nombre, !.snap = filas]]
    /\ UNCHANGED <<ciclos, ciclos_seq, registros, registros_seq, last>>

\* The waiting UPDATE goes on once the rows are released.
NuevoReanuda(w) ==
    /\ UNCHANGED <<cuentas, fecha_tipo>>
    /\ tx[w].pc = "nuevo_espera"
    /\ tx[w].snap \cap Bloqueadas(w) = {}
    /\ tx' = [tx EXCEPT ![w].pc = "nuevo_insert",
                        ![w].snap = {},
                        ![w].locks = {i \in tx[w].snap :
                                         ciclos[i].activo /\ ciclos[i].empresa_id = tx[w].emp}]
    /\ UNCHANGED <<ciclos, ciclos_seq, registros, registros_seq, last>>

\* admin_ciclos, action=nuevo: INSERT INTO ciclos ...; conn.commit()
NuevoInsertCommit(w) ==
    /\ UNCHANGED <<cuentas, fecha_tipo>>
    /\ tx[w].pc = "nuevo_insert"
    /\ tx' = [tx EXCEPT ![w] = Idle]
    /\ UNCHANGED <<registros, registros_seq>>
    /\ IF ViolaUnique(ciclos, tx[w].nombre, tx[w].emp, NULL)
       THEN /\ last' = Resp("nuevo", "fault", tx[w].emp, NULL)
            /\ UNCHANGED <<ciclos, ciclos_seq>>
       ELSE /\ ciclos_seq' = ciclos_seq + 1
            /\ ciclos' = InsertarCiclo(CerrarFilas(ciclos, tx[w].locks, Hoy),
                                       ciclos_seq, tx[w].nombre, tx[w].emp)
            /\ last' = Resp("nuevo", "ok", tx[w].emp, ciclos_seq)

\* admin_ciclos, action=cerrar: SELECT id FROM ciclos WHERE activo ... LIMIT 1
CerrarSelect(w, e) ==
    /\ UNCHANGED <<cuentas, fecha_tipo>>
    /\ tx[w].pc = "idle"
    /\ UNCHANGED <<ciclos, ciclos_seq, registros, registros_seq>>
    /\ LET ciclo_activo == get_active_cycle(ciclos, e)
       IN IF ciclo_activo # NULL
          THEN /\ tx' = [tx EXCEPT ![w] = [Idle EXCEPT !.pc = "cerrar_update",
                                                       !.emp = e, !.id = ciclo_activo]]
               /\ UNCHANGED last
          ELSE /\ last' = Resp("cerrar", "notice", e, NULL)
               /\ UNCHANGED tx

\* admin_ciclos, action=cerrar: the two UPDATEs and conn.commit()
CerrarUpdateCommit(w) ==
    /\ UNCHANGED <<cuentas, fecha_tipo>>
    /\ tx[w].pc = "cerrar_update"
    /\ tx[w].id \notin Bloqueadas(w)
    /\ ciclos' = CerrarCicloPorId(ciclos, tx[w].id, Hoy)
    /\ registros' = CerrarRegistrosDeCiclo(registros, tx[w].id)
    /\ last' = Resp("cerrar", "ok", NULL, tx[w].id)
    /\ tx' = [tx EXCEPT ![w] = Idle]
    /\ UNCHANGED <<ciclos_seq, registros_seq>>

\* actualizar_registro: the SELECTs and the lock test
ActualizarLee(w, rid, sede) ==
    /\ UNCHANGED <<cuentas, fecha_tipo>>
    /\ tx[w].pc = "idle"
    /\ UNCHANGED <<ciclos, ciclos_seq, registros, registros_seq>>
    /\ IF rid \notin DOMAIN registros
       THEN /\ last' = Resp("actualizar", "notfound", NULL, NULL)
            /\ UNCHANGED tx
       ELSE IF ~is_editable(registros, ciclos, rid)
       THEN /\ last' = Resp("actualizar", "locked", NULL, rid)
            /\ UNCHANGED tx
       ELSE /\ tx' = [tx EXCEPT ![w] = [Idle EXCEPT !.pc = "actualizar_update",
                                                    !.id = rid, !.sede = sede]]
            /\ UNCHANGED last

\* actualizar_registro: UPDATE mantenimiento SET ... WHERE id=rid; conn.commit()
ActualizarEscribe(w) ==
    /\ UNCHANGED <<cuentas, fecha_tipo>>
    /\ tx[w].pc = "actualizar_update"
    /\ registros' = IF tx[w].id \in DOMAIN registros
                    THEN ActualizarCampos(registros, tx[w].id, tx[w].sede, HoyIso)
                    ELSE registros
    /\ last' = Resp("actualizar", "ok", NULL, tx[w].id)
    /\ tx' = [tx EXCEPT ![w] = Idle]
    /\ UNCHANGED <<ciclos, ciclos_seq, registros_seq>>

NextConc ==
    \/ \E w \in Workers, e \in Empresas, n \in Nombres : NuevoUpdate(w, e, n)
    \/ \E w \in Workers : NuevoReanuda(w)
    \/ \E w \in Workers : NuevoInsertCommit(w)
    \/ \E w \in Workers, e \in Empresas : CerrarSelect(w, e)
    \/ \E w \in Workers : CerrarUpdateCommit(w)
    \/ \E w \in Workers, rid \in RegistroIds : ActualizarLee(w, rid, "Monteria")
    \/ \E w \in Workers : ActualizarEscribe(w)
    \/ \E e \in Empresas :
          GuardarMantenimiento([rol |-> "tecnico", empresa_id |-> e], "Soledad", HoyIso)

SpecConc == Init /\ [][NextConc]_vars

\* ==================================================================
\* Properties
\* ==================================================================

\* A record the lock rule makes non-editable: closed, or in a cycle that is
\* missing or not active.
NoEditable(reg, cic, rid) ==
    \/ reg[rid].cerrado
    \/ /\ reg[rid].ciclo_id # NULL
       /\ \/ reg[rid].ciclo_id \notin DOMAIN cic
          \/ ~cic[reg[rid].ciclo_id].activo

\* A record without cycle that has not been closed.
SinCicloAbierto(reg, rid) == reg[rid].ciclo_id = NULL /\ ~reg[rid].cerrado

\* C1: in every state reached by requests handled one at a time, each
\* company has at most one cycle with activo = TRUE.
UnCicloActivoPorEmpresa ==
    \A e \in Empresas : Cardinality(Activos(ciclos, e)) <= 1

\* C2: when open-cycle requests run concurrently, no interleaving leaves a
\* company with two cycles with activo = TRUE once the requests are answered.
AperturasConcurrentesUnActivo ==
    (\A w \in Workers : tx[w].pc = "idle") =>
        \A e \in Empresas : Cardinality(Activos(ciclos, e)) <= 1

\* C3: no interleaving of an update with cerrar or nuevo commits a change of
\* a record's fields when the record's cycle is not active at that commit.
ActualizacionRespetaCierre ==
    [][\A r \in DOMAIN registros \cap DOMAIN registros' :
         registros'[r].sede # registros[r].sede =>
            \/ registros[r].ciclo_id = NULL
            \/ /\ registros[r].ciclo_id \in DOMAIN ciclos
               /\ ciclos[registros[r].ciclo_id].activo]_vars

\* C4: an update or delete request on a non-editable record is refused, and
\* a refused request changes no record and no cycle: a request that is
\* accepted was made on an editable record, and every other answer leaves
\* both tables as they were.
RechazoDeNoEditable ==
    [][last'.op \in {"actualizar", "eliminar"} =>
         IF last'.res = "ok"
         THEN /\ last'.id \in DOMAIN registros
              /\ ~NoEditable(registros, ciclos, last'.id)
         ELSE /\ registros' = registros
              /\ ciclos' = ciclos]_vars

\* C4 witness: an update was refused for a record that is closed.
RechazoDeNoEditableVisto ==
    /\ last.op = "actualizar" /\ last.res = "locked"
    /\ last.id \in DOMAIN registros
    /\ registros[last.id].cerrado

\* C5: a successful nuevo for company e sets activo = FALSE and
\* fecha_cierre = today on every cycle of e that was active, inserts exactly
\* one cycle, active and of company e, and leaves the cycles of every other
\* company as they were.
NuevoCierraSoloLosDeLaEmpresa ==
    [][(last'.op = "nuevo" /\ last'.res = "ok") =>
         LET e == last'.emp IN
         /\ DOMAIN ciclos' = DOMAIN ciclos \cup {last'.id}
         /\ last'.id \notin DOMAIN ciclos
         /\ ciclos'[last'.id].activo
         /\ ciclos'[last'.id].empresa_id = e
         /\ \A i \in DOMAIN ciclos :
              /\ (ciclos[i].activo /\ ciclos[i].empresa_id = e) =>
                    ciclos'[i] = [ciclos[i] EXCEPT !.activo = FALSE, !.fecha_cierre = Hoy]
              /\ ciclos[i].empresa_id # e => ciclos'[i] = ciclos[i]]_vars

\* C5 witness: nuevo has closed the cycle the company had open.
NuevoCierraVisto ==
    /\ last.op = "nuevo" /\ last.res = "ok"
    /\ \E i \in DOMAIN ciclos :
          /\ i # last.id
          /\ ciclos[i].empresa_id = last.emp
          /\ ~ciclos[i].activo
          /\ ciclos[i].fecha_cierre = Hoy

\* C6: after a successful nuevo for company e, every record of a cycle of e
\* that was active has cerrado = TRUE.
NuevoCierraRegistros ==
    [][(last'.op = "nuevo" /\ last'.res = "ok") =>
         \A r \in DOMAIN registros :
            registros[r].ciclo_id \in Activos(ciclos, last'.emp) =>
               r \in DOMAIN registros' /\ registros'[r].cerrado]_vars

\* C7: a successful cerrar sets cerrado on the records of the closed cycle
\* and leaves the flag of every other record as it was.
CerrarMarcaSoloSusRegistros ==
    [][(last'.op = "cerrar" /\ last'.res = "ok") =>
         /\ last'.id \in DOMAIN ciclos
         /\ ciclos[last'.id].activo /\ ~ciclos'[last'.id].activo
         /\ DOMAIN registros' = DOMAIN registros
         /\ \A r \in DOMAIN registros :
              registros'[r].cerrado =
                 IF registros[r].ciclo_id = last'.id THEN TRUE ELSE registros[r].cerrado]_vars

\* C7 witness: cerrar has closed a record of its cycle and left another
\* record open.
CerrarMarcaVisto ==
    /\ last.op = "cerrar" /\ last.res = "ok"
    /\ \E r, q \in DOMAIN registros :
          /\ registros[r].ciclo_id = last.id /\ registros[r].cerrado
          /\ registros[q].ciclo_id # last.id /\ ~registros[q].cerrado

\* C8: guardar inserts a record only when the session's company has an
\* active cycle, and the record references an active cycle of that company
\* and that company; any other answer of guardar inserts nothing, and
\* nothing but guardar inserts a record.
GuardarSoloEnCicloActivo ==
    [][/\ (last'.op = "guardar" /\ last'.res = "ok") =>
             /\ last'.emp \in Empresas
             /\ Activos(ciclos, last'.emp) # {}
             /\ last'.id \notin DOMAIN registros
             /\ DOMAIN registros' = DOMAIN registros \cup {last'.id}
             /\ \A q \in DOMAIN registros : registros'[q] = registros[q]
             /\ registros'[last'.id].ciclo_id \in Activos(ciclos, last'.emp)
             /\ registros'[last'.id].empresa_id = last'.emp
       /\ ~(last'.op = "guardar" /\ last'.res = "ok") =>
             DOMAIN registros' \subseteq DOMAIN registros
       /\ \A s \in Sesiones :
             (Activos(ciclos, s.empresa_id) = {}
                /\ GuardarMantenimiento(s, "Soledad", HoyIso)) =>
                 /\ registros' = registros
                 /\ (s.rol # "anon" /\ s.empresa_id # NULL) =>
                       last' = Resp("guardar", "invalid", NULL, NULL)]_vars

\* C8 witness: guardar has inserted a record into the active cycle of the
\* session's company.
GuardarVisto ==
    /\ last.op = "guardar" /\ last.res = "ok"
    /\ last.id \in DOMAIN registros
    /\ registros[last.id].ciclo_id \in Activos(ciclos, last.emp)
    /\ registros[last.id].empresa_id = last.emp

\* C9: a record with ciclo_id NULL and cerrado = FALSE is left as it is by
\* every nuevo and cerrar, for any company, and no update or delete of it
\* is refused as locked: the request is applied.
SinCicloSigueEditable ==
    [][\A rid \in DOMAIN registros :
         SinCicloAbierto(registros, rid) =>
            /\ last'.op \in {"nuevo", "cerrar"} =>
                  rid \in DOMAIN registros' /\ registros'[rid] = registros[rid]
            /\ (last'.op \in {"actualizar", "eliminar"} /\ last'.id = rid) =>
                  last'.res = "ok"
            /\ \A sede \in Sedes :
                  ActualizarRegistro("tecnico", rid, sede, HoyIso) =>
                     registros'[rid].sede = sede
            /\ Eliminar("admin", rid) => rid \notin DOMAIN registros']_vars

\* C9 witness: a record without cycle has been updated after cycles were
\* opened and closed.
SinCicloEditadoVisto ==
    /\ last.op = "actualizar" /\ last.res = "ok"
    /\ last.id \in DOMAIN registros
    /\ SinCicloAbierto(registros, last.id)
    /\ registros[last.id].sede = "Monteria"
    /\ \E i, j \in DOMAIN ciclos : ~ciclos[i].activo /\ ciclos[j].activo

\* C10: a cycle with activo = FALSE keeps every field through every request
\* (so it is never active again), and an edit request on it is refused.
CicloCerradoInmutable ==
    [][/\ \A i \in DOMAIN ciclos :
            ~ciclos[i].activo => i \in DOMAIN ciclos' /\ ciclos'[i] = ciclos[i]
       /\ (last'.op = "editar" /\ last'.res \in {"ok", "invalid", "fault"}) =>
            last'.id \in DOMAIN ciclos /\ ciclos[last'.id].activo
       /\ \A i \in DOMAIN ciclos :
            (~ciclos[i].activo /\ EditarCiclo("admin", i)) =>
                last' = Resp("editar", "locked", NULL, i)]_vars

\* C10 witness: an edit of a closed cycle was refused.
EdicionRechazadaVista ==
    /\ last.op = "editar" /\ last.res = "locked"
    /\ last.id \in DOMAIN ciclos
    /\ ~ciclos[last.id].activo
\* C11: when the INSERT of nuevo fails, the request leaves both tables as
\* they were: the cycles its UPDATE deactivated are still active, with the
\* close date they had.
FalloDeNuevoNoCierra ==
    [][(last'.op = "nuevo" /\ last'.res = "fault") =>
         /\ ciclos' = ciclos
         /\ registros' = registros]_vars

\* C11 witness: nuevo failed on a name the company already has, and the
\* company's cycle is still active without close date.
FalloDeNuevoVisto ==
    /\ last.op = "nuevo" /\ last.res = "fault"
    /\ last.emp \in Empresas
    /\ \E i \in DOMAIN ciclos :
          /\ ciclos[i].empresa_id = last.emp
          /\ ciclos[i].activo
          /\ ciclos[i].fecha_cierre = NULL

\* C12: nuevo with a missing company id, or with a company id no row of
\* empresas has, is answered as a validation rejection and writes nothing.
NuevoEmpresaDesconocidaRechazada ==
    [][(last'.op = "nuevo" /\ last'.emp \notin Empresas) =>
         /\ last'.res = "invalid"
         /\ ciclos' = ciclos]_vars

Conectados == {s \in Sesiones : s.rol # "anon"}
ParamCiclo == {NULL} \cup CicloIds

\* C14 (precedence): the dashboard reads the selected cycle when it exists
\* and belongs to the caller's company, otherwise the company's active
\* cycle, and the all-companies query only for a caller without company.
PanelPrecedencia ==
    \A s \in Conectados, p \in ParamCiclo :
       LET c == ciclo_seleccionado(ciclos, s, p)
           propio == p \in DOMAIN ciclos /\ ciclos[p].empresa_id = s.empresa_id
       IN /\ (s.empresa_id # NULL /\ propio) => c = p
          /\ (s.empresa_id # NULL /\ ~propio) =>
                IF Activos(ciclos, s.empresa_id) = {}
                THEN c = NULL
                ELSE c = Max(Activos(ciclos, s.empresa_id))
          /\ Alcance(ciclos, s, p) = "todas" => s.empresa_id = NULL

\* C14: the precedence holds, and a caller with a company never sees a
\* record of a cycle that another company owns.
PanelSoloCiclosPropios ==
    /\ PanelPrecedencia
    /\ \A s \in Conectados, p \in ParamCiclo :
          s.empresa_id # NULL =>
             \A r \in RegistrosPrincipal(registros, ciclos, s, p) :
                registros[r].ciclo_id \in DOMAIN ciclos =>
                   ciclos[registros[r].ciclo_id].empresa_id = s.empresa_id

\* C15: for every caller and every selected cycle, with no filters, the
\* total of the dashboard equals the total of the listing.
TotalPanelIgualListado ==
    \A s \in Conectados, p \in ParamCiclo :
       total_mantenimientos(registros, ciclos, s, p) = total_consultar(registros, s)

\* The cycle with the highest id among the active cycles of company e, or
\* NULL when the company has none.
EsElMayorActivo(cic, e, c) ==
    IF \E i \in DOMAIN cic : cic[i].activo /\ cic[i].empresa_id = e
    THEN /\ c \in DOMAIN cic
         /\ cic[c].activo /\ cic[c].empresa_id = e
         /\ \A i \in DOMAIN cic : (cic[i].activo /\ cic[i].empresa_id = e) => i <= c
    ELSE c = NULL

\* C16: get_active_cycle gives the active cycle of the company with the
\* highest id, also when several are active, and NULL when there is none;
\* the dashboard without selected cycle reads that cycle, guardar puts its
\* record into that cycle, and cerrar closes that cycle.
CicloActivoEsElMayor ==
    /\ [](\A e \in Empresas :
            /\ EsElMayorActivo(ciclos, e, get_active_cycle(ciclos, e))
            /\ \A s \in Conectados :
                  s.empresa_id = e =>
                     EsElMayorActivo(ciclos, e, ciclo_seleccionado(ciclos, s, NULL)))
    /\ [][/\ (last'.op = "guardar" /\ last'.res = "ok") =>
               EsElMayorActivo(ciclos, last'.emp, registros'[last'.id].ciclo_id)
          /\ (last'.op = "cerrar" /\ last'.res = "ok") =>
               /\ last'.id \in DOMAIN ciclos
               /\ EsElMayorActivo(ciclos, ciclos[last'.id].empresa_id, last'.id)]_vars

\* C16 witness: a company has two active cycles and guardar has put the
\* record into the one with the higher id.
CicloActivoMayorVisto ==
    /\ last.op = "guardar" /\ last.res = "ok"
    /\ Cardinality(Activos(ciclos, last.emp)) = 2
    /\ registros[last.id].ciclo_id = Max(Activos(ciclos, last.emp))
    /\ get_active_cycle(ciclos, last.emp) = registros[last.id].ciclo_id

\* A request that leaves the three tables as they were.
SinCambios == ciclos' = ciclos /\ registros' = registros /\ tecnicos' = tecnicos

\* C17: nuevo, cerrar, eliminar, registro and exportar made by a caller who
\* is not logged in or whose role is not admin are refused by the
\* decorator, whatever the form, and change no cycle, record or technician.
SoloAdminCambia ==
    [][/\ last' = Denegado => SinCambios
       /\ \A rol \in Roles \ {"admin"} :
            /\ \A e \in FormEmpresas, n \in Nombres :
                  NuevoCiclo(rol, e, n) => (last' = Denegado /\ SinCambios)
            /\ \A e \in FormEmpresas :
                  CerrarCiclo(rol, e) => (last' = Denegado /\ SinCambios)
            /\ \A rid \in RegistroIds :
                  Eliminar(rol, rid) => (last' = Denegado /\ SinCambios)
            /\ \A rn \in FormRoles :
                  Registro(rol, "ana", "Ana", "ana@x.co", "c1", rn) =>
                     (last' = Denegado /\ SinCambios)
            /\ \A e \in {NULL} \cup Empresas :
                  Exportar([rol |-> rol, empresa_id |-> e]) =>
                     (last' = Denegado /\ SinCambios)]_vars

\* C17 witness: a request was refused by the decorator while there were a
\* cycle to close, a record to delete and a second technician registered.
SoloAdminVisto ==
    /\ last = Denegado
    /\ \E i \in DOMAIN ciclos : ciclos[i].activo
    /\ \E r \in DOMAIN registros : is_editable(registros, ciclos, r)
    /\ "ana" \in DOMAIN tecnicos

\* The contrasena of a registered technician is not the same after the step.
CambiaContrasena ==
    \E u \in DOMAIN tecnicos :
       u \in DOMAIN tecnicos' /\ tecnicos'[u].contrasena # tecnicos[u].contrasena

\* C18: a token changes a contrasena at most once.  A reset that succeeds is
\* made with a token of the table that has not expired, and deletes it; a
\* request with a token that is not in the table is refused and changes no
\* technician; a request with an expired token deletes the token and changes
\* no technician; and nothing but a successful reset changes a contrasena.
TokenUnaVez ==
    /\ [](\A t \in TokenIds : usos[t] <= 1)
    /\ [][/\ \A t \in TokenIds :
               usos'[t] # usos[t] =>
                  /\ t \in DOMAIN password_resets
                  /\ ahora <= password_resets[t].expires_at
                  /\ t \notin DOMAIN password_resets'
                  /\ last' = Resp("confirm", "ok", NULL, t)
          /\ \A t \in TokenIds, post \in BOOLEAN :
               RecuperarConfirm(t, post, "c2", "c2") =>
                  /\ t \notin DOMAIN password_resets =>
                        /\ last' = Resp("confirm", "notfound", NULL, t)
                        /\ tecnicos' = tecnicos
                        /\ password_resets' = password_resets
                  /\ (t \in DOMAIN password_resets
                        /\ ahora > password_resets[t].expires_at) =>
                        /\ last' = Resp("confirm", "expired", NULL, t)
                        /\ tecnicos' = tecnicos
                        /\ t \notin DOMAIN password_resets'
          /\ CambiaContrasena => \E t \in TokenIds : usos'[t] # usos[t]]_vars

\* C18 witness: a token that has changed a contrasena was presented again
\* and refused, and another token was deleted at its lookup after expiry
\* without having changed anything.
TokenUnaVezVisto ==
    /\ last.op = "confirm" /\ last.res = "notfound"
    /\ usos[last.id] = 1
    /\ \E u \in DOMAIN tecnicos : login(tecnicos, u, "c2")
    /\ \E t \in TokenIds :
          /\ t < tokens_seq
          /\ t \notin DOMAIN password_resets
          /\ usos[t] = 0

\* The records without cycle whose company is unset or is the company of
\* cycle c.
Pendientes(reg, cic, c) ==
    {r \in DOMAIN reg :
        /\ reg[r].ciclo_id = NULL
        /\ reg[r].empresa_id = NULL \/ reg[r].empresa_id = cic[c].empresa_id}

\* C19: a successful asociar of cycle c puts exactly the pending records of
\* c into c, reports their number, and leaves every other record as it was;
\* an asociar of a cycle that does not exist or has no pending record
\* changes no record.
AsociarSoloPendientes ==
    [][/\ (last'.op = "asociar" /\ last'.res = "ok") =>
            LET c == last'.id
            IN /\ c \in DOMAIN ciclos
               /\ Pendientes(registros, ciclos, c) # {}
               /\ last'.n = Cardinality(Pendientes(registros, ciclos, c))
               /\ DOMAIN registros' = DOMAIN registros
               /\ \A r \in DOMAIN registros :
                     IF r \in Pendientes(registros, ciclos, c)
                     THEN /\ registros'[r].ciclo_id = c
                          /\ registros'[r].sede = registros[r].sede
                          /\ registros'[r].tecnico = registros[r].tecnico
                          /\ registros'[r].cerrado = registros[r].cerrado
                     ELSE registros'[r] = registros[r]
       /\ (last'.op = "asociar" /\ last'.res # "ok") => registros' = registros
       /\ \A c \in CicloIds :
            (AsociarMantenimientos("admin", c)
               /\ (c \notin DOMAIN ciclos \/ Pendientes(registros, ciclos, c) = {})) =>
                  /\ registros' = registros
                  /\ last'.op = "asociar" /\ last'.res \in {"notfound", "notice"}
       /\ ciclos' # ciclos => last'.op # "asociar"]_vars

\* C19 witness: asociar has put a record into its cycle and left a record
\* of another cycle where it was.
AsociarVisto ==
    /\ last.op = "asociar" /\ last.res = "ok" /\ last.n = 1
    /\ \E r, q \in DOMAIN registros :
          /\ registros[r].ciclo_id = last.id
          /\ registros[q].ciclo_id \notin {NULL, last.id}

\* C20: a record that is not editable is still there and still not editable
\* after every request, and cerrado never goes back from TRUE to FALSE.
NoEditableEsTerminal ==
    [][\A r \in DOMAIN registros :
         /\ NoEditable(registros, ciclos, r) =>
               /\ r \in DOMAIN registros'
               /\ NoEditable(registros', ciclos', r)
         /\ registros[r].cerrado =>
               /\ r \in DOMAIN registros'
               /\ registros'[r].cerrado]_vars

\* C20 witness: after the cycle of a record was closed and a new cycle was
\* opened and edited, the record is closed and its cycle inactive.
NoEditableVisto ==
    /\ last.op = "editar" /\ last.res = "ok"
    /\ \E r \in DOMAIN registros :
          /\ registros[r].cerrado
          /\ registros[r].ciclo_id \in DOMAIN ciclos
          /\ registros[r].ciclo_id # last.id
          /\ ~ciclos[registros[r].ciclo_id].activo

\* C21: an edit of a cycle is applied only on an active cycle and only for a
\* caller with role admin: a request of a caller with role tecnico changes
\* no field of any cycle.
EditarSoloAdmin ==
    [][/\ (last'.op = "editar" /\ last'.res = "ok") =>
             last'.id \in DOMAIN ciclos /\ ciclos[last'.id].activo
       /\ \A cid \in CicloIds : EditarCiclo("tecnico", cid) => ciclos' = ciclos]_vars

\* C22: an update or delete of a record by id changes only a record of the
\* caller's company: the request of a caller logged in for company A on a
\* record of another company B leaves every record as it was.
SoloRegistrosDeMiEmpresa ==
    [][\A s \in Conectados, rid \in RegistroIds :
          (/\ s.empresa_id \in Empresas
           /\ rid \in DOMAIN registros
           /\ registros[rid].empresa_id \in Empresas \ {s.empresa_id}
           /\ \/ \E sede \in Sedes : ActualizarRegistro(s.rol, rid, sede, HoyIso)
              \/ Eliminar(s.rol, rid))
          => registros' = registros]_vars

\* The rows of the dashboard of session s and parameter p whose fecha is no date.
FechasMalas(s, p) ==
    {r \in RegistrosPrincipal(registros, ciclos, s, p) : ~EsFecha(registros[r].fecha)}

\* C23: a record whose stored fecha cannot be parsed does not abort the
\* statistics of the dashboard: the page is answered, the record is counted in
\* the total and in the number of technicians, and it is left out of the
\* count of the current month and of the counts per month.
PanelToleraFechaMala ==
    [][\A s \in Conectados, p \in ParamCiclo :
          (FechasMalas(s, p) # {} /\ Principal(s, p)) =>
             LET filas == RegistrosPrincipal(registros, ciclos, s, p)
                 buenas == filas \ FechasMalas(s, p)
             IN /\ last'.res = "ok"
                /\ last'.n = Cardinality(filas)
                /\ last'.total_tecnicos = Cardinality({registros[r].tecnico : r \in filas})
                /\ last'.mantenimientos_mes =
                      Cardinality({r \in buenas : Like(registros[r].fecha, mes_actual)})
                /\ last'.meses = meses_data(registros, buenas)]_vars

\* C24: every record that references a cycle has the company of that cycle.
RegistroConEmpresaDeSuCiclo ==
    \A r \in DOMAIN registros :
       registros[r].ciclo_id \in DOMAIN ciclos =>
          registros[r].empresa_id = ciclos[registros[r].ciclo_id].empresa_id

\* C25: a successful update changes nothing but the descriptive fields (sede,
\* fecha) of the record it names: the record keeps its id, tecnico, ciclo_id,
\* empresa_id and cerrado, every other record is as it was, no record is
\* added or removed, and no cycle is changed.
ActualizarSoloCamposDescriptivos ==
    [][(last'.op = "actualizar" /\ last'.res = "ok") =>
         LET rid == last'.id
         IN /\ rid \in DOMAIN registros
            /\ DOMAIN registros' = DOMAIN registros
            /\ registros'[rid].tecnico = registros[rid].tecnico
            /\ registros'[rid].ciclo_id = registros[rid].ciclo_id
            /\ registros'[rid].empresa_id = registros[rid].empresa_id
            /\ registros'[rid].cerrado = registros[rid].cerrado
            /\ registros'[rid] = [registros[rid] EXCEPT !.sede = registros'[rid].sede,
                                                        !.fecha = registros'[rid].fecha]
            /\ \A q \in DOMAIN registros \ {rid} : registros'[q] = registros[q]
            /\ registros_seq' = registros_seq
            /\ ciclos' = ciclos
            /\ ciclos_seq' = ciclos_seq]_vars

\* C25 witness: an update has changed the sede of a record of an active
\* cycle while another record, closed with its cycle, kept its own.
ActualizadoVisto ==
    /\ last.op = "actualizar" /\ last.res = "ok"
    /\ last.id \in DOMAIN registros
    /\ registros[last.id].sede = "Monteria"
    /\ registros[last.id].ciclo_id \in DOMAIN ciclos
    /\ \E q \in DOMAIN registros \ {last.id} :
          /\ registros[q].sede = "Soledad"
          /\ registros[q].cerrado
====
